---- MODULE Spec2Model ----
(***************************************************************************)
(* Model of A3.py: the sequential quantile-estimation engine               *)
(* (compute_quantiles) with its helpers find_rs, insert_new_elements,      *)
(* meets_tolerances and save_data, and the persisted sample file.          *)
(*                                                                         *)
(* Numbers.  Samples are floats in the program; here they are integers.    *)
(* A probability, a confidence level and a relative tolerance are exact    *)
(* rationals <<numerator, denominator>>, so floor(p * N) and the binomial  *)
(* distribution function are computed exactly.  Arrays are 1-based         *)
(* sequences; Index gives Python's zero-based (and negative) indexing.     *)
(***************************************************************************)
EXTENDS Integers, Sequences, FiniteSets, TLC

VARIABLES
    fn, ret, called,                       \* harness for the pure helpers
    filename, required_quantiles, abs_tolerance, rel_tolerance,
    confidence, batch_size,                \* arguments of compute_quantiles
    fileExists, store,                     \* the persisted sample file
    rng,                                   \* np.random's generator state
    samples, ndim, N, pairs_list, attempts, new_samples, quantiles, pc,
    generated, nBatches, extAppends, runs, storeAtLoad   \* history

fnVars     == <<fn, ret, called>>
argVars    == <<filename, required_quantiles, abs_tolerance, rel_tolerance,
                confidence, batch_size>>
fileVars   == <<fileExists, store>>
localVars  == <<samples, ndim, N, pairs_list, attempts, new_samples, quantiles>>
histVars   == <<generated, nBatches, extAppends, runs, storeAtLoad>>
vars       == <<fnVars, argVars, fileVars, rng, localVars, pc, histVars>>

----------------------------------------------------------------------------
(* Bounds of the model *)

MaxLen      == 3    \* longest array handed to a helper on its own
MaxVal      == 2    \* sample values handed to a helper on its own: 0..MaxVal
MaxN        == 5    \* largest sample count handed to find_rs on its own
MaxStore    == 14   \* the engine stops generating when the file holds this many
MaxExternal == 1    \* samples appended to the file by other writers
MaxRuns     == 2    \* calls of compute_quantiles on the same file
MaxSeed     == 3    \* initial states of the random generator: 0..MaxSeed

(* Program constants *)

ReloadPeriod  == 10   \* attempts % 10 == 0
FirstAttempt  == 1    \* attempts = 1

----------------------------------------------------------------------------
(* Generic helpers *)

Min(a, b) == IF a <= b THEN a ELSE b
Max(a, b) == IF a >= b THEN a ELSE b

RECURSIVE Pow(_, _)
Pow(b, e) == IF e = 0 THEN 1 ELSE b * Pow(b, e - 1)

\* binomial coefficient, C(n, k) = C(n, k-1) * (n-k+1) / k
RECURSIVE Choose(_, _)
Choose(n, k) == IF k = 0 THEN 1 ELSE (Choose(n, k - 1) * (n - k + 1)) \div k

IsSorted(s) == \A i \in 1..(Len(s) - 1) : s[i] <= s[i + 1]

Count(s, v) == Cardinality({i \in 1..Len(s) : s[i] = v})

Range(s) == {s[i] : i \in 1..Len(s)}

\* multiset equality of two sequences
SameElements(s, t) ==
    /\ Len(s) = Len(t)
    /\ \A v \in Range(s) \cup Range(t) : Count(s, v) = Count(t, v)

\* every element of s occurs in t at least as often
Contained(s, t) == \A v \in Range(s) : Count(s, v) <= Count(t, v)

IsPrefix(s, t) == Len(s) <= Len(t) /\ SubSeq(t, 1, Len(s)) = s

\* Python indexing a[i]: zero-based, a negative i counts from the end
Index(a, i) == IF i < 0 THEN a[Len(a) + i + 1] ELSE a[i + 1]

\* ndarray.sort(): ascending, in place
RECURSIVE InsertSorted(_, _)
InsertSorted(s, x) ==
    IF s = <<>> THEN <<x>>
    ELSE IF x <= Head(s) THEN <<x>> \o s
    ELSE <<Head(s)>> \o InsertSorted(Tail(s), x)

RECURSIVE sort(_)
sort(s) == IF s = <<>> THEN <<>> ELSE InsertSorted(sort(Tail(s)), Head(s))

----------------------------------------------------------------------------
(* find_rs: binom.interval(confidence, sample_size, p), then zero-based *)

\* numerator of P(X = k) over the denominator p[2]^n, X ~ Binomial(n, p)
PmfNum(k, n, p) == Choose(n, k) * Pow(p[1], k) * Pow(p[2] - p[1], n - k)

\* a/b >= c/d for a, c >= 0 and b, d > 0, by comparing the integer parts
\* and then the inverted remainders, so that no product is formed
RECURSIVE FracGE(_, _, _, _)
FracGE(a, b, c, d) ==
    IF a \div b # c \div d THEN a \div b > c \div d
    ELSE IF c % d = 0 THEN TRUE
    ELSE IF a % b = 0 THEN FALSE
    ELSE FracGE(d, c % d, b, a % b)

\* cdf / p[2]^n >= q, for q = <<qn, qd>>
AtLeast(cdf, n, p, q) == FracGE(cdf, Pow(p[2], n), q[1], q[2])

\* binom.ppf(q, n, p): the least k with P(X <= k) >= q; below is the
\* numerator of P(X <= k - 1)
RECURSIVE PpfFrom(_, _, _, _, _)
PpfFrom(k, below, n, p, q) ==
    LET cdf == below + PmfNum(k, n, p)
    IN  IF k >= n \/ AtLeast(cdf, n, p, q) THEN k ELSE PpfFrom(k + 1, cdf, n, p, q)

ppf(q, n, p) == PpfFrom(0, 0, n, p, q)

\* binom.interval(confidence, n, p) = (ppf((1-c)/2), ppf((1+c)/2))
interval(c, n, p) ==
    << ppf(<<c[2] - c[1], 2 * c[2]>>, n, p), ppf(<<c[2] + c[1], 2 * c[2]>>, n, p) >>

find_rs(p, sample_size, conf) ==
    LET rs == interval(conf, sample_size, p)
    IN  << Max(rs[1] - 1, 0), rs[2] - 1 >>

----------------------------------------------------------------------------
(* insert_new_elements: two-pointer merge of two sorted arrays *)

insert_tail_dropped(old_list, new_elements) ==
    LET RECURSIVE loop(_, _, _)
        loop(i, j, merged) ==
            IF i < Len(old_list) /\ j < Len(new_elements)
            THEN IF old_list[i + 1] < new_elements[j + 1]
                 THEN loop(i + 1, j, Append(merged, old_list[i + 1]))
                 ELSE loop(i, j + 1, Append(merged, new_elements[j + 1]))
            ELSE IF i = Len(old_list)
                 THEN merged \o SubSeq(new_elements, j + 1, Len(new_elements))
                 ELSE merged \o SubSeq(old_list, i + 2, Len(old_list))
    IN  loop(0, 0, <<>>)

insert_new_elements(old_list, new_elements) ==
    LET RECURSIVE loop(_, _, _)
        loop(i, j, merged) ==
            IF i < Len(old_list) /\ j < Len(new_elements)
            THEN IF old_list[i + 1] < new_elements[j + 1]
                 THEN loop(i + 1, j, Append(merged, old_list[i + 1]))
                 ELSE loop(i, j + 1, Append(merged, new_elements[j + 1]))
            ELSE IF i = Len(old_list)
                 THEN merged \o SubSeq(new_elements, j + 1, Len(new_elements))
                 ELSE merged \o SubSeq(old_list, i + 1, Len(old_list))
    IN  loop(0, 0, <<>>)

----------------------------------------------------------------------------
(* meets_tolerances *)

\* d > min(abs_tol, rel_tol * width), with rel_tol = <<rn, rd>>, rd > 0
ExceedsTolerance(d, width, abs_tol, rel_tol) ==
    d * rel_tol[2] > Min(abs_tol * rel_tol[2], rel_tol[1] * width)

meets_first_pair_only(smp, pairs, abs_tol, rel_tol) ==
    LET width == Index(smp, -1) - Index(smp, 0)
    IN  \/ pairs = <<>>
        \/ ~ExceedsTolerance(Index(smp, pairs[1][2]) - Index(smp, pairs[1][1]),
                             width, abs_tol, rel_tol)

meets_abs_only(smp, pairs, abs_tol, rel_tol) ==
    \A i \in 1..Len(pairs) :
        Index(smp, pairs[i][2]) - Index(smp, pairs[i][1]) <= abs_tol

meets_tolerances(smp, pairs, abs_tol, rel_tol) ==
    LET width == Index(smp, -1) - Index(smp, 0)
        RECURSIVE loop(_)
        loop(i) ==
            IF i > Len(pairs) THEN TRUE
            ELSE IF ExceedsTolerance(Index(smp, pairs[i][2]) - Index(smp, pairs[i][1]),
                                     width, abs_tol, rel_tol)
                 THEN FALSE
                 ELSE loop(i + 1)
    IN  loop(1)

----------------------------------------------------------------------------
(* The persisted sample file *)

\* open(filename, 'w') instead of 'a': the file is truncated first
save_data_truncating(contents, smp) == smp

\* save_data: open(filename, 'a'), one line per sample
save_data(contents, smp) == contents \o smp

\* np.genfromtxt(filename) on an existing file of one float per line: an
\* empty file gives an empty 1-d array (with a warning), a single line a
\* 0-d array, anything longer a 1-d array
genfromtxt(contents) ==
    [ndim |-> IF Len(contents) = 1 THEN 0 ELSE 1, data |-> contents]

----------------------------------------------------------------------------
(* Inputs *)

NoneName == "<None>"

Half    == <<1, 2>>
Quarter == <<1, 4>>
ThreeQ  == <<3, 4>>

Filenames     == {NoneName, "", "data.csv"}
QuantileLists == {<<Half>>, <<Quarter, ThreeQ>>}
Confidences   == {<<2, 5>>, <<19, 20>>}
AbsTols       == {0, 10}
RelTols       == {<<1, 2>>, <<1, 1>>}
BatchSizes    == {1, 2}
ExternalValues == {5}
InitialFiles  == { [exists |-> FALSE, contents |-> <<>>],
                   [exists |-> TRUE,  contents |-> <<>>],
                   [exists |-> TRUE,  contents |-> <<3, 0>>] }

\* np.random's module-level generator: the sampler is opaque, and all the
\* engine sees of it is a stream of values fixed by the generator's state.
\* The stream here is a small full-period congruential one with values 0..3
Seeds == 0..MaxSeed

NextRng(r) == (5 * r + 3) % 8

RECURSIVE Draw(_, _)
Draw(r, count) == IF count = 0 THEN <<>> ELSE <<r \div 2>> \o Draw(NextRng(r), count - 1)

RECURSIVE Advance(_, _)
Advance(r, count) == IF count = 0 THEN r ELSE Advance(NextRng(r), count - 1)

\* "if filename": None and the empty string are both false
HasFilenameNotNone(f) == f # NoneName

HasFilename(f) == f # NoneName /\ f # ""

\* int(p * N) for p = <<pn, pd>>
IntPN(p, n) == (p[1] * n) \div p[2]

AllPairs(n) == [i \in 1..Len(required_quantiles) |->
                    find_rs(required_quantiles[i], n, confidence)]

ShouldReloadOffByOne(a) == a % ReloadPeriod = 1

ShouldReload(a) == a % ReloadPeriod = 0

ReloadUnsorted(contents) == genfromtxt(contents).data

\* samples = np.genfromtxt(filename); samples.sort()
Reload(contents) == sort(genfromtxt(contents).data)

----------------------------------------------------------------------------
(* States of the harness and of the engine when the other one runs *)

FnIdle == fn = [name |-> "none"] /\ ret = <<>> /\ called = FALSE

LocalsReset ==
    /\ samples = <<>> /\ ndim = 1 /\ N = 0 /\ pairs_list = <<>>
    /\ attempts = 0 /\ new_samples = <<>> /\ quantiles = <<>>

EngineIdle ==
    /\ filename = NoneName /\ required_quantiles = <<>> /\ abs_tolerance = 0
    /\ rel_tolerance = <<1, 1>> /\ confidence = <<1, 2>> /\ batch_size = 1
    /\ fileExists = FALSE /\ store = <<>> /\ rng = 0
    /\ LocalsReset
    /\ pc = "idle"
    /\ generated = <<>> /\ nBatches = 0 /\ extAppends = 0 /\ runs = 0
    /\ storeAtLoad = -2

----------------------------------------------------------------------------
(* compute_quantiles, one action per step between two file operations *)

Init ==
    /\ FnIdle
    /\ filename \in Filenames
    /\ required_quantiles \in QuantileLists
    /\ abs_tolerance \in AbsTols
    /\ rel_tolerance \in RelTols
    /\ confidence \in Confidences
    /\ batch_size \in BatchSizes
    /\ \E f \in InitialFiles : fileExists = f.exists /\ store = f.contents
    /\ rng \in Seeds
    /\ LocalsReset
    /\ pc = "start"
    /\ generated = <<>> /\ nBatches = 0 /\ extAppends = 0 /\ runs = 1
    /\ storeAtLoad = -2

\* lines 199-200, 206-207
Start ==
    /\ pc = "start"
    /\ pc' = IF HasFilename(filename) THEN "load" ELSE "config_error"
    /\ UNCHANGED <<fnVars, argVars, rng, fileVars, localVars, histVars>>

\* lines 201-203: a missing file makes genfromtxt raise, which the bare
\* except catches
LoadInitial ==
    /\ pc = "load"
    /\ IF fileExists
       THEN /\ samples' = genfromtxt(store).data
            /\ ndim' = genfromtxt(store).ndim
            /\ storeAtLoad' = Len(store)
            /\ pc' = "sort"
       ELSE /\ storeAtLoad' = -1
            /\ pc' = "generate_initial"
            /\ UNCHANGED <<samples, ndim>>
    /\ UNCHANGED <<fnVars, argVars, rng, fileVars, N, pairs_list, attempts,
                   new_samples, quantiles, generated, nBatches, extAppends, runs>>

\* line 204
GenerateInitial ==
    /\ pc = "generate_initial"
    /\ samples' = Draw(rng, batch_size)
    /\ generated' = generated \o Draw(rng, batch_size)
    /\ rng' = Advance(rng, batch_size)
    /\ ndim' = 1
    /\ nBatches' = nBatches + 1
    /\ pc' = "save_initial"
    /\ UNCHANGED <<fnVars, argVars, fileVars, N, pairs_list, attempts,
                   new_samples, quantiles, extAppends, runs, storeAtLoad>>

\* line 205
SaveInitial ==
    /\ pc = "save_initial"
    /\ store' = save_data(store, samples)
    /\ fileExists' = TRUE
    /\ pc' = "sort"
    /\ UNCHANGED <<fnVars, argVars, rng, localVars, histVars>>

\* lines 208-216.  A 0-d array has no axis to sort (line 209 raises); with
\* an empty array the call ends in an exception too, at the latest on
\* samples[-1] in meets_tolerances (line 178)
SortInitial ==
    /\ pc = "sort"
    /\ IF ndim = 0 \/ Len(samples) = 0
       THEN /\ pc' = "crashed"
            /\ UNCHANGED <<samples, N, pairs_list, attempts>>
       ELSE /\ samples' = sort(samples)
            /\ N' = Len(samples)
            /\ pairs_list' = AllPairs(Len(samples))
            /\ attempts' = FirstAttempt
            /\ pc' = "check"
    /\ UNCHANGED <<fnVars, argVars, rng, fileVars, ndim, new_samples, quantiles, histVars>>

\* line 217, and lines 236-239 when the loop ends
Check ==
    /\ pc = "check"
    /\ IF meets_tolerances(samples, pairs_list, abs_tolerance, rel_tolerance)
       THEN /\ quantiles' = [i \in 1..Len(required_quantiles) |->
                                Index(samples, IntPN(required_quantiles[i], N) - 1)]
            /\ pc' = "done"
       ELSE /\ pc' = "loop"
            /\ UNCHANGED quantiles
    /\ UNCHANGED <<fnVars, argVars, rng, fileVars, samples, ndim, N, pairs_list,
                   attempts, new_samples, histVars>>

\* lines 218-227
LoopHead ==
    /\ pc = "loop"
    /\ IF ShouldReload(attempts)
       THEN /\ samples' = Reload(store)
            /\ N' = Len(genfromtxt(store).data)
       ELSE UNCHANGED <<samples, N>>
    /\ attempts' = attempts + 1
    /\ pc' = "generate"
    /\ UNCHANGED <<fnVars, argVars, rng, fileVars, ndim, pairs_list, new_samples,
                   quantiles, histVars>>

\* line 228
Generate ==
    /\ pc = "generate"
    /\ Len(store) + batch_size <= MaxStore
    /\ new_samples' = Draw(rng, batch_size)
    /\ generated' = generated \o Draw(rng, batch_size)
    /\ rng' = Advance(rng, batch_size)
    /\ nBatches' = nBatches + 1
    /\ pc' = "save"
    /\ UNCHANGED <<fnVars, argVars, fileVars, samples, ndim, N, pairs_list,
                   attempts, quantiles, extAppends, runs, storeAtLoad>>

\* lines 229-230
Save ==
    /\ pc = "save"
    /\ store' = save_data(store, new_samples)
    /\ fileExists' = TRUE
    /\ pc' = "merge"
    /\ UNCHANGED <<fnVars, argVars, rng, localVars, histVars>>

\* lines 231-235
Merge ==
    /\ pc = "merge"
    /\ new_samples' = sort(new_samples)
    /\ samples' = insert_new_elements(samples, sort(new_samples))
    /\ N' = N + batch_size
    /\ pairs_list' = AllPairs(N + batch_size)
    /\ pc' = "check"
    /\ UNCHANGED <<fnVars, argVars, rng, fileVars, ndim, attempts, quantiles, histVars>>

\* another invocation on the same filename appends a sample (save_data,
\* lines 129-133, in the other process)
ExternalAppend ==
    /\ pc \notin {"idle", "config_error"}
    /\ extAppends < MaxExternal
    /\ Len(store) < MaxStore
    /\ \E v \in ExternalValues : store' = save_data(store, <<v>>)
    /\ fileExists' = TRUE
    /\ extAppends' = extAppends + 1
    /\ UNCHANGED <<fnVars, argVars, rng, localVars, pc, generated, nBatches, runs,
                   storeAtLoad>>

\* the script is run again with the same arguments (lines 346-348)
Rerun ==
    /\ pc \in {"done", "crashed", "config_error"}
    /\ runs < MaxRuns
    /\ runs' = runs + 1
    /\ samples' = <<>> /\ ndim' = 1 /\ N' = 0 /\ pairs_list' = <<>>
    /\ attempts' = 0 /\ new_samples' = <<>> /\ quantiles' = <<>>
    /\ nBatches' = 0
    /\ storeAtLoad' = -2
    /\ pc' = "start"
    /\ UNCHANGED <<fnVars, argVars, rng, fileVars, generated, extAppends>>

Next ==
    \/ Start
    \/ LoadInitial
    \/ GenerateInitial
    \/ SaveInitial
    \/ SortInitial
    \/ Check
    \/ LoopHead
    \/ Generate
    \/ Save
    \/ Merge
    \/ ExternalAppend
    \/ Rerun

Spec == Init /\ [][Next]_vars

----------------------------------------------------------------------------
(* The helpers on their own: the inputs are drawn at the start, one action *)
(* per helper applies it                                                   *)

SortedSeqs(len, vals) ==
    {s \in UNION {[1..n -> vals] : n \in 0..len} : IsSorted(s)}

\* rank pairs as find_rs can return them for a collection of n samples
RankPairs(n) == (0..(n - 1)) \X ((-1)..(n - 1))

PairLists(n) ==
    {<<>>} \cup {<<a>> : a \in RankPairs(n)}
           \cup {<<a, b>> : a \in RankPairs(n), b \in RankPairs(n)}

MergeInputs ==
    [name : {"insert_new_elements"},
     old_list : SortedSeqs(MaxLen, 0..MaxVal),
     new_elements : SortedSeqs(MaxLen, 0..MaxVal)]

MeetsInputs ==
    UNION { [name : {"meets_tolerances"}, samples : {s}, pairs_list : PairLists(Len(s)),
             abs_tolerance : {0, MaxVal}, rel_tolerance : {<<1, 2>>, <<1, 1>>}]
            : s \in SortedSeqs(MaxLen, 0..MaxVal) \ {<<>>} }

FindRsInputs ==
    [name : {"find_rs"},
     p : {<<1, 10>>, <<1, 4>>, <<1, 2>>, <<3, 4>>, <<9, 10>>},
     sample_size : 1..MaxN,
     confidence : {<<2, 5>>, <<9, 10>>, <<19, 20>>}]

InitFn ==
    /\ EngineIdle
    /\ fn \in MergeInputs \cup MeetsInputs \cup FindRsInputs
    /\ ret = <<>>
    /\ called = FALSE

Call_insert_new_elements ==
    /\ ~called
    /\ fn.name = "insert_new_elements"
    /\ ret' = insert_new_elements(fn.old_list, fn.new_elements)
    /\ called' = TRUE
    /\ UNCHANGED <<fn, argVars, fileVars, rng, localVars, pc, histVars>>

Call_meets_tolerances ==
    /\ ~called
    /\ fn.name = "meets_tolerances"
    /\ ret' = << meets_tolerances(fn.samples, fn.pairs_list, fn.abs_tolerance,
                                  fn.rel_tolerance) >>
    /\ called' = TRUE
    /\ UNCHANGED <<fn, argVars, fileVars, rng, localVars, pc, histVars>>

Call_find_rs ==
    /\ ~called
    /\ fn.name = "find_rs"
    /\ ret' = find_rs(fn.p, fn.sample_size, fn.confidence)
    /\ called' = TRUE
    /\ UNCHANGED <<fn, argVars, fileVars, rng, localVars, pc, histVars>>

NextFn ==
    \/ Call_insert_new_elements
    \/ Call_meets_tolerances
    \/ Call_find_rs

SpecFn == InitFn /\ [][NextFn]_vars

----------------------------------------------------------------------------
(* Claims about the helpers, under SpecFn *)

\* C1: for sorted A and B (either may be empty, duplicates allowed),
\* insert_new_elements(A, B) is sorted and is a permutation of A ++ B.
C1_MergeSortedPermutation ==
    (called /\ fn.name = "insert_new_elements") =>
        /\ IsSorted(ret)
        /\ SameElements(ret, fn.old_list \o fn.new_elements)
        /\ Len(ret) = Len(fn.old_list) + Len(fn.new_elements)

\* C1 witness: new_elements runs out first and the tail of old_list is
\* copied, with a value that occurs in both inputs.
C1_Witness ==
    /\ called
    /\ fn.name = "insert_new_elements"
    /\ fn.old_list = <<0, 1, 2>>
    /\ fn.new_elements = <<1, 1>>
    /\ ret = <<0, 1, 1, 1, 2>>

\* C2: meets_tolerances is true exactly when every rank pair (lo, hi) has
\* samples[hi] - samples[lo] <= min(abs_tol, rel_tol * (samples[last] -
\* samples[first])), whatever the position of a failing pair in the list.
C2_MeetsIsConjunction ==
    (called /\ fn.name = "meets_tolerances") =>
        LET smp   == fn.samples
            width == smp[Len(smp)] - smp[1]
            Within(pair) ==
                LET d == Index(smp, pair[2]) - Index(smp, pair[1])
                IN  /\ d <= fn.abs_tolerance
                    /\ d * fn.rel_tolerance[2] <= fn.rel_tolerance[1] * width
        IN  ret[1] <=> \A i \in 1..Len(fn.pairs_list) : Within(fn.pairs_list[i])

\* C2 witness: the first pair is within the tolerance, the second is not,
\* and the result is false.
C2_Witness ==
    /\ called
    /\ fn.name = "meets_tolerances"
    /\ fn.samples = <<0, 1, 2>>
    /\ fn.pairs_list = << <<0, 0>>, <<0, 2>> >>
    /\ fn.abs_tolerance = MaxVal
    /\ fn.rel_tolerance = <<1, 2>>
    /\ ret = <<FALSE>>

\* C3: for every p in (0,1), N >= 1 and confidence in (0,1), the pair
\* (lo, hi) that find_rs returns satisfies 0 <= lo <= hi <= N - 1.
C3_RankPairInBounds ==
    (called /\ fn.name = "find_rs") =>
        /\ 0 <= ret[1]
        /\ ret[1] <= ret[2]
        /\ ret[2] <= fn.sample_size - 1

----------------------------------------------------------------------------
(* Claims about compute_quantiles, under Spec *)

\* C4: without a store identifier (filename None or empty) the call ends in
\* the configuration error before any batch is generated and before the
\* file is read or written.
C4_NoFilenameNoWork ==
    (filename = NoneName \/ filename = "") =>
        /\ pc \in {"start", "config_error"}
        /\ nBatches = 0
        /\ generated = <<>>
        /\ storeAtLoad = -2
        /\ samples = <<>>

\* C4 witness: the call was made with an empty filename and has raised.
C4_Witness == filename = "" /\ pc = "config_error"

\* C5: at DONE there is one estimate per requested probability, in request
\* order, and the estimate for p is the element of the sorted collection at
\* zero-based rank floor(p * N) - 1, with N the size of the collection and
\* the rank in [0, N-1].
C5_EstimateAtRank ==
    pc = "done" =>
        /\ Len(quantiles) = Len(required_quantiles)
        /\ N = Len(samples)
        /\ \A i \in 1..Len(required_quantiles) :
            LET rank == IntPN(required_quantiles[i], N) - 1
            IN  /\ rank \in 0..(N - 1)
                /\ quantiles[i] = samples[rank + 1]

\* the end-to-end scenario: no file yet, quantiles [0.5], absolute
\* tolerance 10.0, batch size 2, one call, nobody else writing
Scenario ==
    /\ HasFilename(filename)
    /\ required_quantiles = <<Half>>
    /\ abs_tolerance = 10
    /\ batch_size = 2
    /\ runs = 1
    /\ storeAtLoad = -1
    /\ extAppends = 0

\* C6 as stated: in the scenario the engine never enters GENERATE-MORE, and
\* it ends with one batch generated, 2 samples in the store and the sample
\* at rank floor(0.5 * 2) - 1 = 0 returned.
C6_ScenarioOnePass ==
    Scenario =>
        /\ pc \notin {"loop", "generate", "save", "merge"}
        /\ pc = "done" =>
            /\ nBatches = 1
            /\ Len(store) = 2
            /\ N = 2
            /\ quantiles = <<samples[1]>>

\* the width of the confidence interval of the scenario's two samples is
\* within min(10.0, rel_tol * range)
ScenarioTight ==
    LET rs == find_rs(Half, 2, confidence)
        d  == Index(samples, rs[2]) - Index(samples, rs[1])
        w  == samples[2] - samples[1]
    IN  d <= 10 /\ d * rel_tolerance[2] <= rel_tolerance[1] * w

\* C6 amended: in the scenario exactly one initial batch is generated (the
\* store then holds 2 samples and N = 2); the first tolerance check passes,
\* and the sample at rank 0 is returned, exactly when the confidence
\* interval's width is within min(10.0, rel_tol * range); otherwise the
\* engine enters GENERATE-MORE.
C6_ScenarioAmended ==
    Scenario =>
        /\ (pc = "sort" \/ (pc \in {"check", "done", "loop"} /\ attempts = FirstAttempt))
            => (nBatches = 1 /\ Len(store) = 2 /\ Len(samples) = 2)
        /\ (pc = "done" /\ attempts = FirstAttempt)
            => (ScenarioTight /\ N = 2 /\ quantiles = <<samples[1]>>)
        /\ (pc = "loop" /\ attempts = FirstAttempt) => ~ScenarioTight

\* C6 witness: the scenario ended on the first pass with two different
\* samples.
C6_Witness ==
    /\ Scenario
    /\ pc = "done"
    /\ attempts = FirstAttempt
    /\ samples[1] < samples[2]
    /\ confidence = <<19, 20>>

\* every batch generated so far, but the one still waiting to be saved, is
\* in the file, and so is everything the in-memory collection holds
StoreHoldsGenerated ==
    LET pending == IF pc \in {"save_initial", "save"} THEN batch_size ELSE 0
        saved   == SubSeq(generated, 1, Len(generated) - pending)
    IN  /\ Contained(saved, store)
        /\ pc \in {"sort", "check", "loop", "generate", "save", "done"}
            => Contained(samples, store)
        /\ pc = "merge" => Contained(samples \o new_samples, store)

\* C7: the store is append-only over all steps and runs (no step removes or
\* rewrites a value, its size never decreases), and every generated batch is
\* in the store before it is merged into the in-memory collection.
C7_AppendOnlyStore ==
    [][ /\ IsPrefix(store, store')
        /\ fileExists => fileExists'
        /\ StoreHoldsGenerated' ]_vars

\* C7 witness: a second run, after the first one appended its batches, is
\* about to merge one more batch that is already in the file.
C7_Witness ==
    /\ runs = 2
    /\ pc = "merge"
    /\ Len(generated) > batch_size
    /\ Len(store) >= Len(generated)

\* C8: with a filename given, a missing or empty store leads to exactly one
\* initial batch of batch_size samples, appended to the store and used as
\* the collection, and to no error; a store holding at least one sample is
\* loaded and no initial batch is generated.
C8_LoadOrGenerate ==
    /\ (pc = "sort" /\ storeAtLoad \in {-1, 0}) =>
            /\ nBatches = 1
            /\ Len(samples) = batch_size
            /\ Contained(samples, store)
    /\ (pc = "sort" /\ storeAtLoad >= 1) =>
            /\ nBatches = 0
            /\ Len(samples) = storeAtLoad
    /\ pc = "crashed" => storeAtLoad \notin {-1, 0}

\* C9: the full reload happens on every 10th regeneration attempt and on no
\* other: there the collection becomes the sorted contents of the store and
\* N its size, before the batch is generated; on any other attempt the
\* collection and N are left alone; the merge then adds exactly the new
\* batch and N grows by batch_size.
C9_ReloadEveryTenth ==
    [][ /\ (pc = "loop" /\ pc' = "generate") =>
              IF attempts % 10 = 0
              THEN /\ IsSorted(samples')
                   /\ SameElements(samples', store)
                   /\ N' = Len(store)
              ELSE samples' = samples /\ N' = N
        /\ (pc = "merge" /\ pc' = "check") =>
              /\ SameElements(samples', samples \o new_samples)
              /\ N' = N + batch_size ]_vars

\* C9 witness: the 10th attempt of a run that loaded two samples has
\* reloaded the file and picked up a sample appended by another writer.
C9_Witness ==
    /\ pc = "generate"
    /\ attempts = 11
    /\ storeAtLoad = 2
    /\ \E i \in 1..Len(samples) : samples[i] \in ExternalValues

\* C10: wherever meets_tolerances inspects the collection and wherever the
\* estimates are read, the collection is sorted ascending and the rank pairs
\* are those of find_rs for N equal to the collection's size.
C10_SortedWithCurrentPairs ==
    pc \in {"check", "done"} =>
        /\ IsSorted(samples)
        /\ N = Len(samples)
        /\ Len(pairs_list) = Len(required_quantiles)
        /\ \A i \in 1..Len(required_quantiles) :
            pairs_list[i] = find_rs(required_quantiles[i], Len(samples), confidence)

\* C10 witness: a tolerance check after a reload that brought in a sample of
\* another writer, and after the merge of the batch that followed.
C10_Witness ==
    /\ pc = "check"
    /\ attempts = 11
    /\ storeAtLoad = 2
    /\ \E i \in 1..Len(samples) : samples[i] \in ExternalValues
    /\ Len(samples) = Len(store)

====
